---- MODULE Spec2Model ----
(***************************************************************************)
(* Motion-analysis pipeline of the AI coach: the joint angle extractor and *)
(* phase classifier of services/poseUtils.ts and the frame callback, the   *)
(* session timers and endSession of the App component.                     *)
(*                                                                         *)
(* Units.  Landmark coordinates are normalized frame coordinates times     *)
(* 1000 (0.6 is 600), visibilities are confidences times 100 (0.6 is 60),  *)
(* times are milliseconds as returned by Date.now(), angles are degrees,   *)
(* and the arctangent is kept in thousandths of a degree until it is       *)
(* rounded.                                                                *)
(***************************************************************************)
EXTENDS Integers, Sequences, FiniteSets, TLC

VARIABLES
    selectedAIExercise,  \* useState<ExerciseType>
    isAIActive,          \* useState(false)
    isPositioning,       \* useState(false)
    positionScore,       \* useState(0)
    countdown,           \* useState<number | null>(null)
    repCount,            \* useState(0)
    lastFeedback,        \* useState<CoachingFeedback | null>: {} is null
    currentAngles,       \* useState<JointAngles | null>: {} is null
    hipHistoryRef,       \* useRef<number[]>([])
    autoStartTimerRef,   \* useRef<number | null>(null)
    lastRepTimeRef,      \* useRef<number>(0)
    phaseHistoryRef,     \* useRef<string[]>([])
    confirmedPhaseRef,   \* useRef<string>('standing')
    pendingFeedback,     \* analyzeBiomechanics promises not yet settled
    now,                 \* Date.now() at the last tracked frame
    threw,               \* the last frame callback ended with an exception
    script,              \* frames of the scripted squat sequence fed so far
    gateLog              \* history: the last change of confirmedPhaseRef by a
                         \* frame and the time of the last counted repetition

vars == <<selectedAIExercise, isAIActive, isPositioning, positionScore,
          countdown, repCount, lastFeedback, currentAngles, hipHistoryRef,
          autoStartTimerRef, lastRepTimeRef, phaseHistoryRef,
          confirmedPhaseRef, pendingFeedback, now, threw, script, gateLog>>

----------------------------------------------------------------------------
(* types.ts *)

ExerciseType ==
    {"SQUAT", "DEADLIFT", "OVERHEAD_PRESS", "BENCH_PRESS", "PUSH_UP",
     "PULL_UP", "KNEE_ELEVATION", "ROWING", "CUSTOM"}

\* The return type of detectExercisePhase.
Phase == {"descending", "ascending", "bottom", "top", "standing"}

\* countdown === null, autoStartTimerRef.current === null
NullCountdown == -1
NullTimer == 0
ArmedTimer == 1

\* visibility?: number left out of a landmark
NoVisibility == -1

\* landmarks[i] === undefined
AbsentLandmark == [present |-> FALSE, x |-> 0, y |-> 0, visibility |-> NoVisibility]

Landmark(x, y, v) == [present |-> TRUE, x |-> x, y |-> y, visibility |-> v]

\* The landmark indices the pipeline reads.
LandmarkIdx == {0} \cup (11..16) \cup (23..28)

----------------------------------------------------------------------------
(* Arithmetic of poseUtils.ts *)

Abs(n) == IF n < 0 THEN -n ELSE n

\* Math.round on a value given in thousandths: floor(x + 0.5).
Round(milli) == (milli + 500) \div 1000

\* Math.atan2(dy, dx) * 180 / Math.PI in thousandths of a degree, for the
\* directions whose slope is 0, 1/2, 1, 2 or vertical (the landmark frames
\* below only contain such directions).
AtanFirstQuadrant(ady, adx) ==
    CASE ady = 0 -> 0
      [] adx = 0 -> 90000
      [] ady = adx -> 45000
      [] 2 * ady = adx -> 26565
      [] ady = 2 * adx -> 63435

Atan2MilliDeg(dy, dx) ==
    LET a == AtanFirstQuadrant(Abs(dy), Abs(dx)) IN
    IF dy = 0 /\ dx = 0 THEN 0
    ELSE IF dx >= 0 /\ dy >= 0 THEN a
    ELSE IF dx < 0 /\ dy >= 0 THEN 180000 - a
    ELSE IF dx >= 0 THEN -a
    ELSE a - 180000

\* Variant: an absent landmark gives a right angle.
calculateAngle_AbsentRightAngle(p1, p2, p3) ==
    IF ~p1.present \/ ~p2.present \/ ~p3.present THEN 90
    ELSE LET radians == Atan2MilliDeg(p3.y - p2.y, p3.x - p2.x)
                        - Atan2MilliDeg(p1.y - p2.y, p1.x - p2.x)
             angle == Abs(radians)
         IN  Round(IF angle > 180000 THEN 360000 - angle ELSE angle)

\* Variant: the angle is not folded back below 180.
calculateAngle_NoFold(p1, p2, p3) ==
    IF ~p1.present \/ ~p2.present \/ ~p3.present THEN 0
    ELSE Round(Abs(Atan2MilliDeg(p3.y - p2.y, p3.x - p2.x)
                   - Atan2MilliDeg(p1.y - p2.y, p1.x - p2.x)))

calculateAngle(p1, p2, p3) ==
    IF ~p1.present \/ ~p2.present \/ ~p3.present THEN 0
    ELSE LET radians == Atan2MilliDeg(p3.y - p2.y, p3.x - p2.x)
                        - Atan2MilliDeg(p1.y - p2.y, p1.x - p2.x)
             angle == Abs(radians)
         IN  Round(IF angle > 180000 THEN 360000 - angle ELSE angle)

\* landmarks[11].y or landmarks[23].y of an undefined landmark is a TypeError.
getJointAnglesThrows(landmarks) ==
    ~landmarks[11].present \/ ~landmarks[23].present

\* Variant: the back angle without Math.abs.
getJointAngles_SignedBack(landmarks) ==
    [leftKnee   |-> calculateAngle(landmarks[23], landmarks[25], landmarks[27]),
     rightKnee  |-> calculateAngle(landmarks[24], landmarks[26], landmarks[28]),
     leftHip    |-> calculateAngle(landmarks[11], landmarks[23], landmarks[25]),
     rightHip   |-> calculateAngle(landmarks[12], landmarks[24], landmarks[26]),
     leftElbow  |-> calculateAngle(landmarks[11], landmarks[13], landmarks[15]),
     rightElbow |-> calculateAngle(landmarks[12], landmarks[14], landmarks[16]),
     backAngle  |-> Round(Atan2MilliDeg(landmarks[11].y - landmarks[23].y,
                                        landmarks[11].x - landmarks[23].x)
                          - 90000)]

getJointAngles(landmarks) ==
    [leftKnee   |-> calculateAngle(landmarks[23], landmarks[25], landmarks[27]),
     rightKnee  |-> calculateAngle(landmarks[24], landmarks[26], landmarks[28]),
     leftHip    |-> calculateAngle(landmarks[11], landmarks[23], landmarks[25]),
     rightHip   |-> calculateAngle(landmarks[12], landmarks[24], landmarks[26]),
     leftElbow  |-> calculateAngle(landmarks[11], landmarks[13], landmarks[15]),
     rightElbow |-> calculateAngle(landmarks[12], landmarks[14], landmarks[16]),
     backAngle  |-> Round(Abs(Atan2MilliDeg(landmarks[11].y - landmarks[23].y,
                                            landmarks[11].x - landmarks[23].x))
                          - 90000)]

----------------------------------------------------------------------------
(* detectExercisePhase *)

\* history.slice(-n)
SliceLast(s, n) ==
    IF Len(s) <= n THEN s ELSE SubSeq(s, Len(s) - n + 1, Len(s))

\* Variant: the classifier starts after 3 samples.
HistoryWindow_Short == 5 - 2

\* history.length < 5 and history.slice(-5)
HistoryWindow == 5

\* Variant: a near-zero threshold of 0.002.
NearZeroVelocity_Double == 1 + 1

\* Math.abs(avgVelocity) < 0.001, per frame
NearZeroVelocity == 1

\* 0.002 per frame, 0.6, 0.5 and 0.3 of the frame height
MovingVelocity == 2
HipBottomY == 600
ShoulderBottomY == 500
ChinTopY == 300

\* Variant: rowing is classified like the squat.
SquatFamily_WithRowing == {"SQUAT", "DEADLIFT", "KNEE_ELEVATION", "ROWING"}

SquatFamily == {"SQUAT", "DEADLIFT", "KNEE_ELEVATION"}
\* Variant: the pull-up is classified like the push-up.
PushFamily_WithPullUp == {"PUSH_UP", "BENCH_PRESS", "PULL_UP"}

PushFamily == {"PUSH_UP", "BENCH_PRESS"}

\* Variant: the velocity is taken over the whole motion history.
VelocityTimesLen_WholeHistory(history) ==
    history[Len(history)] - history[1]

\* avgVelocity times lastFew.length: the division by 5 is carried to the
\* other side of each comparison.
VelocityTimesLen(history) ==
    LET lastFew == SliceLast(history, HistoryWindow)
    IN  lastFew[Len(lastFew)] - lastFew[1]

\* The landmark reads of the switch that raise a TypeError.
detectExercisePhaseThrows(landmarks, history, exercise) ==
    /\ Len(history) >= HistoryWindow
    /\ \/ exercise \in SquatFamily
          /\ (~landmarks[23].present \/ ~landmarks[24].present)
       \/ exercise \in PushFamily
          /\ (~landmarks[11].present \/ ~landmarks[12].present)
       \/ exercise = "PULL_UP" /\ ~landmarks[0].present

detectExercisePhase(landmarks, history, exercise) ==
    IF Len(history) < HistoryWindow THEN "standing"
    ELSE LET n == Len(SliceLast(history, HistoryWindow))
             v == VelocityTimesLen(history)
         IN  CASE exercise \in SquatFamily ->
                    LET hipY == (landmarks[23].y + landmarks[24].y) \div 2 IN
                    IF Abs(v) < NearZeroVelocity * n /\ hipY > HipBottomY
                    THEN "bottom"
                    ELSE IF v > MovingVelocity * n THEN "descending"
                    ELSE "ascending"
               [] exercise \in PushFamily ->
                    LET shoulderY == (landmarks[11].y + landmarks[12].y) \div 2 IN
                    IF Abs(v) < NearZeroVelocity * n /\ shoulderY > ShoulderBottomY
                    THEN "bottom"
                    ELSE IF v > MovingVelocity * n THEN "descending"
                    ELSE "ascending"
               [] exercise = "PULL_UP" ->
                    LET chinY == landmarks[0].y IN
                    IF Abs(v) < NearZeroVelocity * n /\ chinY < ChinTopY
                    THEN "top"
                    ELSE IF v < -(MovingVelocity * n) THEN "ascending"
                    ELSE "descending"
               [] OTHER -> "standing"

----------------------------------------------------------------------------
(* The frame callback: processPoseRef.current *)

MotionHistoryCapacity == 30
VoteBufferCapacity == 6
VoteStartupGuard == 4
VoteWindow == 5
StableVotes == 3
MinRepInterval == 800
FullScore == 100
VisibilityThreshold == 60

\* stablePhase === undefined
NoStablePhase == "none"

\* Variant: a full buffer drops the new sample.
PushBounded_DropNewest(buf, x, capacity) ==
    IF Len(buf) >= capacity THEN buf ELSE Append(buf, x)

\* buf.push(x); if (buf.length > capacity) buf.shift();
PushBounded(buf, x, capacity) ==
    LET pushed == Append(buf, x)
    IN  IF Len(pushed) > capacity THEN Tail(pushed) ELSE pushed

\* phaseCount[p] after recentPhases.forEach(p => phaseCount[p] = (phaseCount[p] || 0) + 1)
PhaseCount(recentPhases, p) ==
    Cardinality({i \in 1..Len(recentPhases) : recentPhases[i] = p})

\* The keys of phaseCount in the order Object.entries lists them: the order
\* in which forEach first met them.
RECURSIVE PhaseKeys(_)
PhaseKeys(recentPhases) ==
    IF recentPhases = <<>> THEN <<>>
    ELSE LET before == PhaseKeys(SubSeq(recentPhases, 1, Len(recentPhases) - 1))
             p == recentPhases[Len(recentPhases)]
         IN  IF \E i \in 1..Len(before) : before[i] = p
             THEN before ELSE Append(before, p)

\* Variant: every phase of a moving body is a candidate for confirmation.
IsKeyPhase_AnyMoving(phase) == phase # "standing"

IsKeyPhase(phase) == phase = "top" \/ phase = "bottom"

\* Variant: the filter keeps top only.
keyPhases_TopOnly(recentPhases) ==
    SelectSeq(PhaseKeys(recentPhases), LAMBDA p : p = "top")

keyPhases(recentPhases) == SelectSeq(PhaseKeys(recentPhases), IsKeyPhase)

\* Variant: two votes are enough.
HasStableTally_TwoVotes(recentPhases, p) == PhaseCount(recentPhases, p) >= 2

\* Variant: one vote is enough.
HasStableTally_SingleVote(recentPhases, p) == PhaseCount(recentPhases, p) >= 1

HasStableTally(recentPhases, p) == PhaseCount(recentPhases, p) >= StableVotes

\* keyPhases.find(([_, count]) => count >= 3)?.[0]
stablePhaseOf(recentPhases) ==
    LET found == SelectSeq(keyPhases(recentPhases),
                           LAMBDA p : HasStableTally(recentPhases, p))
    IN  IF found = <<>> THEN NoStablePhase ELSE Head(found)

\* Variant: the vote is tallied once the window of 5 is full.
stablePhase_FullWindow(phaseHistory) ==
    IF Len(phaseHistory) >= VoteWindow
    THEN stablePhaseOf(SliceLast(phaseHistory, VoteWindow))
    ELSE NoStablePhase

\* Variant: the vote is tallied from the first frame on.
stablePhase_NoGuard(phaseHistory) ==
    stablePhaseOf(SliceLast(phaseHistory, VoteWindow))

\* The stable phase of a frame, from the vote buffer as it stands after the
\* frame's push.
stablePhase(phaseHistory) ==
    IF Len(phaseHistory) >= VoteStartupGuard
    THEN stablePhaseOf(SliceLast(phaseHistory, VoteWindow))
    ELSE NoStablePhase

\* Variant: either turnaround completes a repetition.
isValidTransition_EitherWay(confirmedPhase, stable) ==
    confirmedPhase # "standing" /\ confirmedPhase # stable

\* Variant: reaching top completes a repetition from any confirmed phase.
isValidTransition_ToTop(confirmedPhase, stable) == stable = "top"

isValidTransition(confirmedPhase, stable) ==
    confirmedPhase = "bottom" /\ stable = "top"

\* Variant: the interval is not tested.
RepIntervalPassed_NoMinimum(currentTime, lastRepTime) ==
    currentTime > lastRepTime

RepIntervalPassed(currentTime, lastRepTime) ==
    (currentTime - lastRepTime) > MinRepInterval

\* Variant: the request is made for the default exercise kind.
FeedbackRequest_DefaultKind(angles, exercise) ==
    [angles |-> angles, exercise |-> "SQUAT"]

\* The request analyzeBiomechanics(angles, selectedAIExercise) starts.
FeedbackRequest(angles, exercise) == [angles |-> angles, exercise |-> exercise]

\* The positioning branch: the position score of a landmark frame.
Visibility(landmark) ==
    IF landmark.visibility = NoVisibility THEN 0 ELSE landmark.visibility

keyLandmarks == {11, 12, 23, 24, 25, 26, 27, 28}

visibleCount(landmarks) ==
    Cardinality({idx \in keyLandmarks :
                    landmarks[idx].present
                    /\ Visibility(landmarks[idx]) > VisibilityThreshold})

\* Math.round((visibleCount / keyLandmarks.length) * 100)
score(landmarks) ==
    (2 * 100 * visibleCount(landmarks) + Cardinality(keyLandmarks))
        \div (2 * Cardinality(keyLandmarks))

\* Variant: the effect never clears an armed timer.
autoStartEffect_NoClear(positioning, posScore, count, timerRef) ==
    IF positioning /\ posScore = FullScore /\ count = NullCountdown
    THEN ArmedTimer
    ELSE timerRef

\* The auto-start effect, run after every render that changed one of
\* positionScore, isPositioning, countdown.
autoStartEffect(positioning, posScore, count, timerRef) ==
    IF positioning /\ posScore = FullScore /\ count = NullCountdown
    THEN (IF timerRef = NullTimer THEN ArmedTimer ELSE timerRef)
    ELSE NullTimer

\* Variant: a repetition is counted without a feedback request.
repGate_NoRequest(stable, currentTime, angles) ==
    LET unchanged == [confirmedPhase |-> confirmedPhaseRef,
                      lastRepTime |-> lastRepTimeRef,
                      repCount |-> repCount,
                      pending |-> pendingFeedback]
    IN  IF stable = NoStablePhase THEN unchanged
        ELSE IF isValidTransition(confirmedPhaseRef, stable)
                /\ RepIntervalPassed(currentTime, lastRepTimeRef)
        THEN [confirmedPhase |-> stable,
              lastRepTime |-> currentTime,
              repCount |-> repCount + 1,
              pending |-> pendingFeedback]
        ELSE IF confirmedPhaseRef # stable
        THEN [unchanged EXCEPT !.confirmedPhase = stable]
        ELSE unchanged

\* Variant: a bottom->top transition that fails the interval test is not
\* locked, so it is counted by a later frame.
repGate_KeepBottom(stable, currentTime, angles) ==
    LET unchanged == [confirmedPhase |-> confirmedPhaseRef,
                      lastRepTime |-> lastRepTimeRef,
                      repCount |-> repCount,
                      pending |-> pendingFeedback]
    IN  IF stable = NoStablePhase THEN unchanged
        ELSE IF isValidTransition(confirmedPhaseRef, stable)
        THEN IF RepIntervalPassed(currentTime, lastRepTimeRef)
             THEN [confirmedPhase |-> stable,
                   lastRepTime |-> currentTime,
                   repCount |-> repCount + 1,
                   pending |-> Append(pendingFeedback,
                                      FeedbackRequest(angles, selectedAIExercise))]
             ELSE unchanged
        ELSE IF confirmedPhaseRef # stable
        THEN [unchanged EXCEPT !.confirmedPhase = stable]
        ELSE unchanged

\* The tracking branch (isAIActive) from the stable phase on: the values of
\* confirmedPhaseRef, lastRepTimeRef, repCount and the started requests
\* after a frame whose stable phase is stable.
repGate(stable, currentTime, angles) ==
    LET unchanged == [confirmedPhase |-> confirmedPhaseRef,
                      lastRepTime |-> lastRepTimeRef,
                      repCount |-> repCount,
                      pending |-> pendingFeedback]
    IN  IF stable = NoStablePhase THEN unchanged
        ELSE IF isValidTransition(confirmedPhaseRef, stable)
                /\ RepIntervalPassed(currentTime, lastRepTimeRef)
        THEN [confirmedPhase |-> stable,
              lastRepTime |-> currentTime,
              repCount |-> repCount + 1,
              pending |-> Append(pendingFeedback,
                                 FeedbackRequest(angles, selectedAIExercise))]
        ELSE IF confirmedPhaseRef # stable
        THEN [unchanged EXCEPT !.confirmedPhase = stable]
        ELSE unchanged

\* The history variable after a frame that left confirmedPhaseRef at
\* confirmedPhase and repCount at count.
NoGateLog == [from |-> "standing", to |-> "standing", counted |-> FALSE, countedAt |-> 0]

LoggedGate(confirmedPhase, count, currentTime) ==
    LET at == IF count # repCount THEN currentTime ELSE gateLog.countedAt
    IN  IF confirmedPhase # confirmedPhaseRef
        THEN [from |-> confirmedPhaseRef, to |-> confirmedPhase,
              counted |-> (count # repCount), countedAt |-> at]
        ELSE [gateLog EXCEPT !.countedAt = at]

\* const hipY = (landmarks[23].y + landmarks[24].y) / 2 and the motion
\* buffer after its push.
hipY(landmarks) == (landmarks[23].y + landmarks[24].y) \div 2

pushedHipHistory(landmarks) ==
    PushBounded(hipHistoryRef, hipY(landmarks), MotionHistoryCapacity)

\* One call of processPoseRef.current with results.poseLandmarks = landmarks
\* at Date.now() = currentTime; detectedPhase is the value the call of
\* detectExercisePhase returns.  Only the tracking branch reads the clock, so
\* only tracked frames advance it.
processPoseWith(landmarks, currentTime, detectedPhase) ==
    /\ isPositioning \/ isAIActive
    /\ now' = IF isAIActive THEN currentTime ELSE now
    /\ UNCHANGED <<selectedAIExercise, isAIActive, isPositioning, countdown,
                   lastFeedback>>
    /\ IF getJointAnglesThrows(landmarks)
       THEN /\ threw' = TRUE
            /\ UNCHANGED <<positionScore, repCount, currentAngles,
                           hipHistoryRef, autoStartTimerRef, lastRepTimeRef,
                           phaseHistoryRef, confirmedPhaseRef, pendingFeedback>>
       ELSE
         LET angles == getJointAngles(landmarks)
             newScore == IF isPositioning THEN score(landmarks) ELSE positionScore
             hipThrows == ~landmarks[23].present \/ ~landmarks[24].present
             history == pushedHipHistory(landmarks)
             detectThrows ==
                 detectExercisePhaseThrows(landmarks, history, selectedAIExercise)
             votes == PushBounded(phaseHistoryRef, detectedPhase, VoteBufferCapacity)
             gate == repGate(stablePhase(votes), currentTime, angles)
         IN
         /\ currentAngles' = {angles}
         /\ positionScore' = newScore
         /\ autoStartTimerRef' =
                autoStartEffect(isPositioning, newScore, countdown, autoStartTimerRef)
         /\ IF ~isAIActive
            THEN /\ threw' = FALSE
                 /\ UNCHANGED <<repCount, hipHistoryRef, lastRepTimeRef,
                                phaseHistoryRef, confirmedPhaseRef, pendingFeedback>>
            ELSE IF hipThrows
            THEN /\ threw' = TRUE
                 /\ UNCHANGED <<repCount, hipHistoryRef, lastRepTimeRef,
                                phaseHistoryRef, confirmedPhaseRef, pendingFeedback>>
            ELSE IF detectThrows
            THEN /\ threw' = TRUE
                 /\ hipHistoryRef' = history
                 /\ UNCHANGED <<repCount, lastRepTimeRef, phaseHistoryRef,
                                confirmedPhaseRef, pendingFeedback>>
            ELSE /\ threw' = FALSE
                 /\ hipHistoryRef' = history
                 /\ phaseHistoryRef' = votes
                 /\ confirmedPhaseRef' = gate.confirmedPhase
                 /\ lastRepTimeRef' = gate.lastRepTime
                 /\ repCount' = gate.repCount
                 /\ pendingFeedback' = gate.pending
    /\ gateLog' = LoggedGate(confirmedPhaseRef', repCount', currentTime)

processPose(landmarks, currentTime) ==
    processPoseWith(landmarks, currentTime,
                    detectExercisePhase(landmarks, pushedHipHistory(landmarks),
                                        selectedAIExercise))

----------------------------------------------------------------------------
(* Session control: the exercise buttons, the timers and endSession.  A     *)
(* state change and the effects its render runs are one step.              *)

CountdownStart == 3

\* Variant: the exercise buttons are rendered at all times.
SelectExercise_Anytime(t) ==
    /\ selectedAIExercise' = t
    /\ isPositioning' = TRUE
    /\ autoStartTimerRef' =
           autoStartEffect(TRUE, positionScore, countdown, autoStartTimerRef)
    /\ UNCHANGED <<isAIActive, positionScore, countdown, repCount, lastFeedback,
                   currentAngles, hipHistoryRef, lastRepTimeRef, phaseHistoryRef,
                   confirmedPhaseRef, pendingFeedback, now, threw, script, gateLog>>

\* onClick of an exercise button, rendered while !isAIActive && !isPositioning
SelectExercise(t) ==
    /\ ~isAIActive /\ ~isPositioning
    /\ selectedAIExercise' = t
    /\ isPositioning' = TRUE
    /\ autoStartTimerRef' =
           autoStartEffect(TRUE, positionScore, countdown, autoStartTimerRef)
    /\ UNCHANGED <<isAIActive, positionScore, countdown, repCount, lastFeedback,
                   currentAngles, hipHistoryRef, lastRepTimeRef, phaseHistoryRef,
                   confirmedPhaseRef, pendingFeedback, now, threw, script, gateLog>>

\* window.setTimeout(() => setCountdown(3), 2000) fires
AutoStartTimerFires ==
    /\ autoStartTimerRef = ArmedTimer
    /\ countdown' = CountdownStart
    /\ autoStartTimerRef' =
           autoStartEffect(isPositioning, positionScore, CountdownStart,
                           autoStartTimerRef)
    /\ UNCHANGED <<selectedAIExercise, isAIActive, isPositioning, positionScore,
                   repCount, lastFeedback, currentAngles, hipHistoryRef,
                   lastRepTimeRef, phaseHistoryRef, confirmedPhaseRef,
                   pendingFeedback, now, threw, script, gateLog>>

\* setTimeout(() => setCountdown(countdown - 1), 1000) fires; the countdown
\* effect then starts tracking when it reads 0.
CountdownTick ==
    /\ countdown # NullCountdown
    /\ countdown > 0
    /\ IF countdown - 1 = 0
       THEN /\ isPositioning' = FALSE
            /\ isAIActive' = TRUE
            /\ countdown' = NullCountdown
            /\ autoStartTimerRef' =
                   autoStartEffect(FALSE, positionScore, NullCountdown,
                                   autoStartTimerRef)
       ELSE /\ countdown' = countdown - 1
            /\ autoStartTimerRef' =
                   autoStartEffect(isPositioning, positionScore, countdown - 1,
                                   autoStartTimerRef)
            /\ UNCHANGED <<isPositioning, isAIActive>>
    /\ UNCHANGED <<selectedAIExercise, positionScore, repCount, lastFeedback,
                   currentAngles, hipHistoryRef, lastRepTimeRef, phaseHistoryRef,
                   confirmedPhaseRef, pendingFeedback, now, threw, script, gateLog>>

\* Variant: endSession leaves the last-rep timestamp as it is.
endSession_KeepTimestamp ==
    /\ isPositioning \/ isAIActive
    /\ isAIActive' = FALSE
    /\ isPositioning' = FALSE
    /\ repCount' = 0
    /\ lastFeedback' = {}
    /\ countdown' = NullCountdown
    /\ hipHistoryRef' = <<>>
    /\ phaseHistoryRef' = <<>>
    /\ confirmedPhaseRef' = "standing"
    /\ autoStartTimerRef' =
           autoStartEffect(FALSE, positionScore, NullCountdown, autoStartTimerRef)
    /\ gateLog' = NoGateLog
    /\ UNCHANGED <<selectedAIExercise, positionScore, currentAngles,
                   lastRepTimeRef, pendingFeedback, now, threw, script>>

\* Variant: endSession leaves the motion history as it is.
endSession_KeepHistory ==
    /\ isPositioning \/ isAIActive
    /\ isAIActive' = FALSE
    /\ isPositioning' = FALSE
    /\ repCount' = 0
    /\ lastFeedback' = {}
    /\ countdown' = NullCountdown
    /\ lastRepTimeRef' = 0
    /\ phaseHistoryRef' = <<>>
    /\ confirmedPhaseRef' = "standing"
    /\ autoStartTimerRef' =
           autoStartEffect(FALSE, positionScore, NullCountdown, autoStartTimerRef)
    /\ gateLog' = NoGateLog
    /\ UNCHANGED <<selectedAIExercise, positionScore, currentAngles,
                   hipHistoryRef, pendingFeedback, now, threw, script>>

\* TERMINATE SYNC / ABORT PROTOCOL
endSession ==
    /\ isPositioning \/ isAIActive
    /\ isAIActive' = FALSE
    /\ isPositioning' = FALSE
    /\ repCount' = 0
    /\ lastFeedback' = {}
    /\ countdown' = NullCountdown
    /\ hipHistoryRef' = <<>>
    /\ lastRepTimeRef' = 0
    /\ phaseHistoryRef' = <<>>
    /\ confirmedPhaseRef' = "standing"
    /\ autoStartTimerRef' =
           autoStartEffect(FALSE, positionScore, NullCountdown, autoStartTimerRef)
    /\ gateLog' = NoGateLog
    /\ UNCHANGED <<selectedAIExercise, positionScore, currentAngles,
                   pendingFeedback, now, threw, script>>

\* What analyzeBiomechanics can resolve to: the status of a CoachingFeedback.
FeedbackStatus == {"excellent", "warning", "critical"}

RemoveAt(s, i) == SubSeq(s, 1, i - 1) \o SubSeq(s, i + 1, Len(s))

\* Variant: a critical feedback takes the repetition back.
FeedbackResolved_Uncounts(i, status) ==
    /\ i \in 1..Len(pendingFeedback)
    /\ lastFeedback' = {[status |-> status]}
    /\ pendingFeedback' = RemoveAt(pendingFeedback, i)
    /\ repCount' = IF status = "critical" /\ repCount > 0
                   THEN repCount - 1 ELSE repCount
    /\ UNCHANGED <<selectedAIExercise, isAIActive, isPositioning, positionScore,
                   countdown, currentAngles, hipHistoryRef,
                   autoStartTimerRef, lastRepTimeRef, phaseHistoryRef,
                   confirmedPhaseRef, now, threw, script, gateLog>>

\* Variant: the resolution restarts the vote.
FeedbackResolved_RestartsVote(i, status) ==
    /\ i \in 1..Len(pendingFeedback)
    /\ lastFeedback' = {[status |-> status]}
    /\ pendingFeedback' = RemoveAt(pendingFeedback, i)
    /\ phaseHistoryRef' = <<>>
    /\ UNCHANGED <<selectedAIExercise, isAIActive, isPositioning, positionScore,
                   countdown, repCount, currentAngles, hipHistoryRef,
                   autoStartTimerRef, lastRepTimeRef, confirmedPhaseRef, now,
                   threw, script, gateLog>>

\* analyzeBiomechanics(...).then(fb => { setLastFeedback(fb); ... })
FeedbackResolved(i, status) ==
    /\ i \in 1..Len(pendingFeedback)
    /\ lastFeedback' = {[status |-> status]}
    /\ pendingFeedback' = RemoveAt(pendingFeedback, i)
    /\ UNCHANGED <<selectedAIExercise, isAIActive, isPositioning, positionScore,
                   countdown, repCount, currentAngles, hipHistoryRef,
                   autoStartTimerRef, lastRepTimeRef, phaseHistoryRef,
                   confirmedPhaseRef, now, threw, script, gateLog>>

\* .catch(err => console.error(...))
FeedbackFailed(i) ==
    /\ i \in 1..Len(pendingFeedback)
    /\ pendingFeedback' = RemoveAt(pendingFeedback, i)
    /\ UNCHANGED <<selectedAIExercise, isAIActive, isPositioning, positionScore,
                   countdown, repCount, lastFeedback, currentAngles,
                   hipHistoryRef, autoStartTimerRef, lastRepTimeRef,
                   phaseHistoryRef, confirmedPhaseRef, now, threw, script, gateLog>>

----------------------------------------------------------------------------
(* The environment: landmark frames, the clock and the bounds of the model *)

\* Date.now() when the component mounts, and the last clock value explored.
StartTime == 1000
MaxTime == 1900
CounterMaxTime == 2600

\* Milliseconds between two frame callbacks.
FrameGaps == {100}

FullyVisible == 90

\* A landmark frame of a person facing the camera: nose, shoulders, elbows,
\* wrists, hips, knees and ankles, the left side at x = 400 and the right
\* side at x = 600; the knees and ankles move sideways by the length of the
\* thigh when the hips are below the squat threshold.
MkLandmarks(hipHeight, shoulderY, noseY, v) ==
    LET bend == IF hipHeight > HipBottomY THEN 100 ELSE 0
        side(i) == IF i % 2 = 1 THEN 400 ELSE 600
    IN  [i \in LandmarkIdx |->
            CASE i = 0 -> Landmark(500, noseY, v)
              [] i \in {11, 12} -> Landmark(side(i), shoulderY, v)
              [] i \in {13, 14} -> Landmark(side(i), shoulderY + 100, v)
              [] i \in {15, 16} -> Landmark(side(i), shoulderY + 200, v)
              [] i \in {23, 24} -> Landmark(side(i), hipHeight, v)
              [] i \in {25, 26} -> Landmark(side(i) + bend, hipHeight + 100, v)
              [] i \in {27, 28} -> Landmark(side(i) + bend, hipHeight + 200, v)]

\* Standing upright and at the bottom of the movement: hips, shoulders and
\* nose high in the frame (small y), or low.
UprightPose == MkLandmarks(300, 200, 100, FullyVisible)
LowPose == MkLandmarks(700, 600, 400, FullyVisible)

SamplePoses == {UprightPose, LowPose}

BasePose == UprightPose

\* The base pose with one key landmark at the visibility threshold, one
\* without a visibility, and one absent.
ObscuredPoses ==
    {[BasePose EXCEPT ![28].visibility = VisibilityThreshold],
     [BasePose EXCEPT ![27].visibility = NoVisibility],
     [BasePose EXCEPT ![26] = AbsentLandmark]}

MissingPoses ==
    {[BasePose EXCEPT ![i] = AbsentLandmark] : i \in {0, 11, 12, 24}}

\* The upright pose with the left wrist drawn in to the chest.
ArmsBentPose == [UprightPose EXCEPT ![15] = Landmark(500, 300, FullyVisible)]

\* One exercise kind of each branch of detectExercisePhase's switch.
SessionKinds == {"SQUAT", "PUSH_UP", "PULL_UP", "ROWING"}

LandmarkFrames == SamplePoses \cup ObscuredPoses \cup MissingPoses

Init ==
    /\ selectedAIExercise = "SQUAT"
    /\ isAIActive = FALSE
    /\ isPositioning = FALSE
    /\ positionScore = 0
    /\ countdown = NullCountdown
    /\ repCount = 0
    /\ lastFeedback = {}
    /\ currentAngles = {}
    /\ hipHistoryRef = <<>>
    /\ autoStartTimerRef = NullTimer
    /\ lastRepTimeRef = 0
    /\ phaseHistoryRef = <<>>
    /\ confirmedPhaseRef = "standing"
    /\ pendingFeedback = <<>>
    /\ now = StartTime
    /\ threw = FALSE
    /\ script = 0
    /\ gateLog = NoGateLog

----------------------------------------------------------------------------
(* The program: frames classified by detectExercisePhase *)

PoseFrame(landmarks) ==
    \E dt \in FrameGaps :
        /\ now + dt <= MaxTime
        /\ processPose(landmarks, now + dt)
        /\ UNCHANGED script

Next ==
    \/ \E t \in SessionKinds : SelectExercise(t)
    \/ \E landmarks \in LandmarkFrames : PoseFrame(landmarks)
    \/ AutoStartTimerFires
    \/ CountdownTick
    \/ endSession

Spec == Init /\ [][Next]_vars

----------------------------------------------------------------------------
(* The repetition counter on its own: one session of the same program, the *)
(* raw phase of each tracked frame drawn from the return type of           *)
(* detectExercisePhase instead of computed by it.                          *)

\* bottom, top and one of the phases the vote never tallies
RawPhases == {"bottom", "top", "ascending"}

RawFrame(landmarks, raw) ==
    \E dt \in FrameGaps :
        /\ now + dt <= CounterMaxTime
        /\ processPoseWith(landmarks, now + dt, raw)
        /\ UNCHANGED script

CounterNext ==
    \/ SelectExercise("SQUAT")
    \/ \E raw \in RawPhases : RawFrame(UprightPose, raw)
    \/ AutoStartTimerFires
    \/ CountdownTick

CounterSpec == Init /\ [][CounterNext]_vars

\* The step that counts a repetition: two exercise kinds, two poses with
\* different joint angles, and the two phases the vote tallies.
RepStepKinds == {"SQUAT", "PULL_UP"}
RepStepFrames == {UprightPose, ArmsBentPose}
TurnaroundPhases == {"bottom", "top"}

RepStepNext ==
    \/ \E t \in RepStepKinds : SelectExercise(t)
    \/ \E landmarks \in RepStepFrames, raw \in TurnaroundPhases :
           RawFrame(landmarks, raw)
    \/ AutoStartTimerFires
    \/ CountdownTick

RepStepSpec == Init /\ [][RepStepNext]_vars

----------------------------------------------------------------------------
(* Sessions one after another: the repetition counter with endSession and  *)
(* the settling of the feedback requests it started.                       *)

SessionNext ==
    \/ \E t \in RepStepKinds : SelectExercise(t)
    \/ \E raw \in TurnaroundPhases : RawFrame(UprightPose, raw)
    \/ AutoStartTimerFires
    \/ CountdownTick
    \/ endSession
    \/ \E i \in 1..Len(pendingFeedback), status \in FeedbackStatus :
           FeedbackResolved(i, status)
    \/ \E i \in 1..Len(pendingFeedback) : FeedbackFailed(i)

SessionSpec == Init /\ [][SessionNext]_vars

----------------------------------------------------------------------------
(* The end-to-end squat scenario: the hip height descends from 0.3 to 0.7  *)
(* over 10 frames, holds for 5, returns to 0.3 over 10 and holds for 5.    *)

SquatScript ==
    [k \in 1..30 |->
        IF k <= 10 THEN 300 + 40 * k
        ELSE IF k <= 15 THEN 700
        ELSE IF k <= 25 THEN 700 - 40 * (k - 15)
        ELSE 300]

\* Frames 30 to 40 ms apart: the 30 frames last 900 to 1200 ms.
ScriptGaps == {30, 40}

ScriptFrame ==
    /\ isAIActive
    /\ script < Len(SquatScript)
    /\ script' = script + 1
    /\ \E dt \in ScriptGaps :
           processPose(MkLandmarks(SquatScript[script + 1], 200, 100, FullyVisible),
                       now + dt)

ScenarioNext ==
    \/ SelectExercise("SQUAT")
    \/ /\ isPositioning
       /\ PoseFrame(UprightPose)
    \/ AutoStartTimerFires
    \/ CountdownTick
    \/ ScriptFrame

ScenarioSpec == Init /\ [][ScenarioNext]_vars

----------------------------------------------------------------------------
(* The first frames of a session, for every exercise kind.                 *)

\* The last clock value explored: 6 tracked frames.
StartupMaxTime == 1600

StartupFrame(landmarks) ==
    \E dt \in FrameGaps :
        /\ now + dt <= StartupMaxTime
        /\ processPose(landmarks, now + dt)
        /\ UNCHANGED script

StartupNext ==
    \/ \E t \in ExerciseType : SelectExercise(t)
    \/ \E landmarks \in LandmarkFrames : StartupFrame(landmarks)
    \/ AutoStartTimerFires
    \/ CountdownTick

StartupSpec == Init /\ [][StartupNext]_vars

----------------------------------------------------------------------------
(* Joint angles: positioning frames whose right hip, knee and ankle take   *)
(* every position of a 3 x 3 grid that also holds the right shoulder.      *)

\* The d-th point of the grid, d in 0..8.
AnglePoint(d) == Landmark(400 + 100 * (d % 3), 200 + 100 * (d \div 3), FullyVisible)

AngleFrameCount == 9 * 9 * 9

\* The k-th frame, k in 1..AngleFrameCount.
AngleFrameOf(k) ==
    [BasePose EXCEPT ![24] = AnglePoint((k - 1) % 9),
                     ![26] = AnglePoint(((k - 1) \div 9) % 9),
                     ![28] = AnglePoint((k - 1) \div 81)]

\* script is the index of the frame fed last.
AngleFrame ==
    /\ isPositioning
    /\ \E k \in 1..AngleFrameCount :
           /\ script' = k
           /\ processPose(AngleFrameOf(k), now)

AngleNext ==
    \/ SelectExercise("SQUAT")
    \/ AngleFrame

AngleSpec == Init /\ [][AngleNext]_vars

----------------------------------------------------------------------------
(* An incomplete landmark frame while positioning: every subset of eight   *)
(* of the landmarks the pipeline reads is absent from some frame.          *)

\* The landmarks that can be absent, by bit of the frame index.
MissingOrder == <<0, 11, 12, 13, 23, 24, 26, 28>>

MissingFrameCount == 2 * 256

\* The landmarks absent from the k-th frame, k in 1..MissingFrameCount.
AbsentFrom(k) ==
    {MissingOrder[j] : j \in {b \in 1..Len(MissingOrder) :
                                ((k - 1) \div (2 ^ (b - 1))) % 2 = 1}}

\* The k-th frame: the upright pose (the low pose for k above 256) without
\* the landmarks AbsentFrom(k).
MissingFrameOf(k) ==
    LET pose == IF k <= 256 THEN UprightPose ELSE LowPose
    IN  [i \in LandmarkIdx |->
            IF i \in AbsentFrom(k) THEN AbsentLandmark ELSE pose[i]]

\* The first frame of the positioning phase; script is its index.
MissingFrame ==
    /\ isPositioning
    /\ script = 0
    /\ \E k \in 1..MissingFrameCount :
           /\ script' = k
           /\ processPose(MissingFrameOf(k), now)

MissingNext ==
    \/ SelectExercise("SQUAT")
    \/ MissingFrame

MissingSpec == Init /\ [][MissingNext]_vars

----------------------------------------------------------------------------
(* The classifier in a tracked session: four frames with the hips at rest, *)
(* then two frames whose hip height, shoulder and nose heights and absent  *)
(* landmark range over the values around the classifier's thresholds, then *)
(* frames at rest again.                                                   *)

\* Hip heights around the 0.6 threshold, 1 to 12 thousandths apart.
ClassifierHips == <<590, 596, 600, 601, 605, 606, 611, 612>>

\* The landmark absent from a frame (none for 1).
ClassifierAbsent == <<{}, {0}, {12}, {24}>>

ClassifierFrameCount == 8 * 2 * 4

\* The k-th frame, k in 1..ClassifierFrameCount: hip height
\* ClassifierHips[((k - 1) % 8) + 1]; shoulders at 0.500 and nose at 0.300, or
\* shoulders at 0.501 and nose at 0.299; one landmark absent or none.
ClassifierFrameOf(k) ==
    LET past == ((k - 1) \div 8) % 2 = 1
        pose == MkLandmarks(ClassifierHips[((k - 1) % 8) + 1],
                            IF past THEN 501 ELSE 500,
                            IF past THEN 299 ELSE 300,
                            FullyVisible)
    IN  [i \in LandmarkIdx |->
            IF i \in ClassifierAbsent[((k - 1) \div 16) + 1]
            THEN AbsentLandmark ELSE pose[i]]

\* The last tracked frame explored.
ClassifierLastFrame == 8

\* The frames the n-th tracked frame of the session is drawn from.
ClassifierFramesAt(n) ==
    IF n = 1 THEN {3, 4}
    ELSE IF n <= 4 THEN {3}
    ELSE IF n = 5 THEN 1..16
    ELSE IF n = 6 THEN 1..ClassifierFrameCount
    ELSE {4}

ClassifierKinds == {"SQUAT", "DEADLIFT", "BENCH_PRESS", "PULL_UP", "ROWING"}

\* script is the index of the frame fed last.
ClassifierFrame ==
    /\ isAIActive
    /\ LET n == ((now - StartTime) \div 100) + 1 IN
           /\ n <= ClassifierLastFrame
           /\ \E k \in ClassifierFramesAt(n) :
                  /\ script' = k
                  /\ processPose(ClassifierFrameOf(k), now + 100)

ClassifierNext ==
    \/ \E t \in ClassifierKinds : SelectExercise(t)
    \/ /\ isPositioning
       /\ PoseFrame(UprightPose)
    \/ AutoStartTimerFires
    \/ CountdownTick
    \/ ClassifierFrame

ClassifierSpec == Init /\ [][ClassifierNext]_vars

----------------------------------------------------------------------------
(* The position score: a positioning phase fed the upright pose and then   *)
(* one frame in which a subset of the key landmarks is at the visibility   *)
(* threshold, without visibility, or absent.                               *)

ScoreOrder == <<11, 12, 23, 24, 25, 26, 27, 28>>

ScoreFrameCount == 3 * 256

\* The key landmarks frame k degrades: the b-th of ScoreOrder when bit b - 1
\* of (k - 1) % 256 is set.
DegradedIn(k) ==
    {ScoreOrder[j] : j \in {b \in 1..Len(ScoreOrder) :
                                (((k - 1) % 256) \div (2 ^ (b - 1))) % 2 = 1}}

\* The k-th frame: the degraded landmarks have visibility 0.6 (k <= 256), no
\* visibility field (k <= 512) or are absent; the others are fully visible.
ScoreFrameOf(k) ==
    [i \in LandmarkIdx |->
        IF i \notin DegradedIn(k) THEN UprightPose[i]
        ELSE IF k <= 256
        THEN [UprightPose[i] EXCEPT !.visibility = VisibilityThreshold]
        ELSE IF k <= 512
        THEN [UprightPose[i] EXCEPT !.visibility = NoVisibility]
        ELSE AbsentLandmark]

\* script is the index of the degraded frame fed.
ScoreFrame ==
    /\ isPositioning
    /\ script = 0
    /\ \E k \in 1..ScoreFrameCount :
           /\ script' = k
           /\ processPose(ScoreFrameOf(k), now)

ScoreNext ==
    \/ SelectExercise("SQUAT")
    \/ /\ isPositioning
       /\ script = 0
       /\ PoseFrame(UprightPose)
    \/ ScoreFrame
    \/ AutoStartTimerFires
    \/ CountdownTick

ScoreSpec == Init /\ [][ScoreNext]_vars

----------------------------------------------------------------------------
(* The trunk: positioning frames whose left shoulder takes every position  *)
(* of a 5 x 5 grid centred on the left hip, the right shoulder moving the  *)
(* same way or the opposite way sideways, with the hips high or low.       *)

TrunkFrameCount == 5 * 5 * 2 * 2

\* The offset of the left shoulder from the left hip in frame k.
TrunkDx(k) == 100 * ((k - 1) % 5) - 200
TrunkDy(k) == 100 * (((k - 1) \div 5) % 5) - 200

\* The right shoulder moves sideways against the left one.
TrunkTwisted(k) == ((k - 1) \div 25) % 2 = 1

\* The k-th frame, k in 1..TrunkFrameCount; the arms hang from the shoulders.
TrunkFrameOf(k) ==
    LET hipHeight == IF k <= 50 THEN 300 ELSE 500
        pose == MkLandmarks(hipHeight, 200, 100, FullyVisible)
        dxOf(i) == IF i % 2 = 0 /\ TrunkTwisted(k) THEN -TrunkDx(k) ELSE TrunkDx(k)
        arm(i, drop) == Landmark(pose[23 + ((i + 1) % 2)].x + dxOf(i),
                                 hipHeight + TrunkDy(k) + drop, FullyVisible)
    IN  [i \in LandmarkIdx |->
            CASE i \in {11, 12} -> arm(i, 0)
              [] i \in {13, 14} -> arm(i, 100)
              [] i \in {15, 16} -> arm(i, 200)
              [] OTHER -> pose[i]]

\* The frame with the trunk leaning as far to the other side.
TrunkMirrorOf(k) == k - ((k - 1) % 5) + (4 - ((k - 1) % 5))

\* script is the index of the frame fed last.
TrunkFrame ==
    /\ isPositioning
    /\ \E k \in 1..TrunkFrameCount :
           /\ script' = k
           /\ processPose(TrunkFrameOf(k), now)

TrunkNext ==
    \/ SelectExercise("SQUAT")
    \/ TrunkFrame

TrunkSpec == Init /\ [][TrunkNext]_vars

----------------------------------------------------------------------------
(* One tracked session of every exercise kind, each frame the upright or   *)
(* the low pose.                                                           *)

KindsNext ==
    \/ \E t \in ExerciseType : SelectExercise(t)
    \/ \E landmarks \in SamplePoses : PoseFrame(landmarks)
    \/ AutoStartTimerFires
    \/ CountdownTick

KindsSpec == Init /\ [][KindsNext]_vars

----------------------------------------------------------------------------
(* A session longer than the motion history: every tracked frame brings a  *)
(* hip height of its own.                                                  *)

BufferScriptLen == 34

\* The hip height of the k-th tracked frame.
BufferSample(k) == 300 + 10 * k

BufferFrame ==
    /\ isAIActive
    /\ script < BufferScriptLen
    /\ script' = script + 1
    /\ \E dt \in ScriptGaps :
           processPose(MkLandmarks(BufferSample(script + 1), 200, 100, FullyVisible),
                       now + dt)

BufferNext ==
    \/ \E t \in SessionKinds : SelectExercise(t)
    \/ /\ isPositioning
       /\ PoseFrame(UprightPose)
    \/ AutoStartTimerFires
    \/ CountdownTick
    \/ BufferFrame

BufferSpec == Init /\ [][BufferNext]_vars

----------------------------------------------------------------------------
(* Properties *)

\* The number of votes for p among the last 5 entries of a vote buffer.
VotesFor(buffer, p) ==
    Cardinality({i \in 1..Len(buffer) : i > Len(buffer) - 5 /\ buffer[i] = p})

\* The last 5 entries of a vote buffer (all of them when it holds fewer).
LastFive(buffer) ==
    LET n == IF Len(buffer) < 5 THEN Len(buffer) ELSE 5
    IN  [i \in 1..n |-> buffer[Len(buffer) - n + i]]

\* p is the stable phase of a frame that left the vote buffer as buffer.
StableIs(buffer, p) == Len(buffer) >= 4 /\ VotesFor(buffer, p) >= 3

\* A step of the frame callback while tracking.
TrackedFrameStep == now' # now

\* The step of endSession.
ResetStep ==
    /\ ~isAIActive' /\ ~isPositioning'
    /\ confirmedPhaseRef' = "standing"
    /\ phaseHistoryRef' = <<>>

\* new is old with one sample appended, the oldest evicted at capacity.
OneAppended(old, new, capacity) ==
    /\ new # <<>>
    /\ new = (IF Len(old) < capacity THEN old ELSE Tail(old)) \o <<new[Len(new)]>>

\* C1: a bottom->top transition of confirmedPhase less than 800 ms after the
\* last counted repetition of the session does not increment the
\* repetition count.
C1_SingleCount ==
    [][(/\ TrackedFrameStep
        /\ confirmedPhaseRef = "bottom" /\ confirmedPhaseRef' = "top"
        /\ gateLog.countedAt # 0
        /\ now' - gateLog.countedAt < 800)
       => repCount' = repCount]_vars

\* A second bottom->top transition came less than 800 ms after the counted
\* one and the count is still 1.
C1_Witness ==
    /\ repCount = 1
    /\ gateLog.from = "bottom" /\ gateLog.to = "top" /\ ~gateLog.counted
    /\ gateLog.countedAt # 0
    /\ now - gateLog.countedAt < 800

\* C2: a stable bottom->top transition at least 800 ms after the last
\* counted repetition is counted, exactly 800 ms included.
C2_AtLeast800Counted ==
    [][(/\ TrackedFrameStep
        /\ confirmedPhaseRef = "bottom"
        /\ StableIs(phaseHistoryRef', "top")
        /\ now' - gateLog.countedAt >= 800)
       => repCount' = repCount + 1]_vars

\* C3: a frame with confirmedPhase top and stable phase bottom sets
\* confirmedPhase to bottom and leaves the repetition count, the last-rep
\* timestamp and the feedback requests as they were.
C3_Directionality ==
    [][(/\ TrackedFrameStep
        /\ confirmedPhaseRef = "top"
        /\ StableIs(phaseHistoryRef', "bottom"))
       => /\ confirmedPhaseRef' = "bottom"
          /\ repCount' = repCount
          /\ lastRepTimeRef' = lastRepTimeRef
          /\ pendingFeedback' = pendingFeedback]_vars

\* confirmedPhase went from top to bottom after a counted repetition.
C3_Witness ==
    /\ gateLog.from = "top" /\ gateLog.to = "bottom"
    /\ confirmedPhaseRef = "bottom"
    /\ repCount = 1

\* C4: after the scripted squat sequence the repetition count is 1 and
\* confirmedPhase is top.
C4_SquatScenario ==
    script = Len(SquatScript) => (repCount = 1 /\ confirmedPhaseRef = "top")

\* C5: a step other than the session reset that changes confirmedPhase is a
\* tracked frame whose vote buffer, after the push, holds at least 3 votes
\* for the new value among its last 5 entries.
C5_VotingWin ==
    [][(confirmedPhaseRef' # confirmedPhaseRef /\ ~ResetStep)
       => /\ TrackedFrameStep
          /\ VotesFor(phaseHistoryRef', confirmedPhaseRef') >= 3]_vars

\* confirmedPhase has just been set to bottom by a vote.
C5_Witness ==
    /\ confirmedPhaseRef = "bottom"
    /\ gateLog.from = "standing" /\ gateLog.to = "bottom"
    /\ VotesFor(phaseHistoryRef, "bottom") = 3

\* C6: for a vote buffer of 4 or more entries the stable phase is bottom
\* (top) exactly when bottom (top) has 3 or more of the last 5 votes, and
\* there is none otherwise; bottom,bottom,bottom,ascending,ascending gives
\* bottom and bottom,bottom,top,top,ascending gives none.
C6_StablePhaseRule ==
    Len(phaseHistoryRef) >= 4 =>
        /\ \A p \in {"bottom", "top"} :
               (stablePhase(phaseHistoryRef) = p) <=> (VotesFor(phaseHistoryRef, p) >= 3)
        /\ (stablePhase(phaseHistoryRef) = NoStablePhase)
               <=> (\A p \in {"bottom", "top"} : VotesFor(phaseHistoryRef, p) < 3)
        /\ LastFive(phaseHistoryRef)
                   = <<"bottom", "bottom", "bottom", "ascending", "ascending">>
               => stablePhase(phaseHistoryRef) = "bottom"
        /\ LastFive(phaseHistoryRef)
                   = <<"bottom", "bottom", "top", "top", "ascending">>
               => stablePhase(phaseHistoryRef) = NoStablePhase

\* A full vote buffer whose last 5 votes are bottom, bottom, bottom,
\* ascending, ascending, in a session whose confirmedPhase was set to bottom.
C6_Witness ==
    /\ LastFive(phaseHistoryRef)
           = <<"bottom", "bottom", "bottom", "ascending", "ascending">>
    /\ Len(phaseHistoryRef) = 6
    /\ gateLog.to = "bottom"

\* C7: confirmedPhase is always standing, bottom or top, and it becomes
\* standing only by the session reset.
C7_NeverTransitional ==
    /\ [](confirmedPhaseRef \in {"standing", "bottom", "top"})
    /\ [][confirmedPhaseRef' = "standing"
          => (confirmedPhaseRef = "standing" \/ ResetStep)]_vars

\* A transitional phase holds 3 or more of the last 5 votes of a session
\* that is being tracked.
C7_Witness ==
    /\ isAIActive
    /\ Len(phaseHistoryRef) >= 4
    /\ \/ VotesFor(phaseHistoryRef, "ascending") >= 3
       \/ VotesFor(phaseHistoryRef, "descending") >= 3

\* C8: a tracked frame after which neither bottom nor top has 3 of the last
\* 5 votes leaves confirmedPhase, the repetition count, the last-rep
\* timestamp and the feedback requests unchanged and appends one sample to
\* each of the two buffers.
C8_NoStablePhaseNoOp ==
    [][(/\ TrackedFrameStep
        /\ VotesFor(phaseHistoryRef', "bottom") < 3
        /\ VotesFor(phaseHistoryRef', "top") < 3)
       => /\ confirmedPhaseRef' = confirmedPhaseRef
          /\ repCount' = repCount
          /\ lastRepTimeRef' = lastRepTimeRef
          /\ pendingFeedback' = pendingFeedback
          /\ OneAppended(hipHistoryRef, hipHistoryRef', 30)
          /\ OneAppended(phaseHistoryRef, phaseHistoryRef', 6)]_vars

\* C9: a frame with confirmedPhase bottom, stable phase top and more than
\* 800 ms since the last-rep timestamp increments the repetition count by 1,
\* sets confirmedPhase to top and the timestamp to the frame's time, and
\* starts one feedback request with the frame's joint angles and the
\* selected exercise kind.
C9_CountedStep ==
    [][(/\ TrackedFrameStep
        /\ confirmedPhaseRef = "bottom"
        /\ StableIs(phaseHistoryRef', "top")
        /\ now' - lastRepTimeRef > 800)
       => /\ repCount' = repCount + 1
          /\ confirmedPhaseRef' = "top"
          /\ lastRepTimeRef' = now'
          /\ \E angles \in currentAngles' :
                 pendingFeedback' =
                     Append(pendingFeedback,
                            [angles |-> angles, exercise |-> selectedAIExercise])]_vars

\* A second repetition of a pull-up session has just been counted on a frame
\* whose joint angles differ from those of the first.
C9_Witness ==
    /\ repCount = 2
    /\ gateLog.counted /\ gateLog.countedAt = now
    /\ selectedAIExercise = "PULL_UP"
    /\ Len(pendingFeedback) = 2
    /\ pendingFeedback[1].angles # pendingFeedback[2].angles

\* C10: a frame whose stable phase differs from confirmedPhase and that is no
\* counted completion (no bottom->top, or bottom->top less than 800 ms after
\* the last counted repetition) sets confirmedPhase to the stable phase and
\* leaves the count, the timestamp and the feedback requests unchanged; and
\* no frame counts while confirmedPhase is top.
C10_PhaseLock ==
    [][/\ \A p \in {"bottom", "top"} :
              (/\ TrackedFrameStep
               /\ StableIs(phaseHistoryRef', p)
               /\ p # confirmedPhaseRef
               /\ \/ ~(confirmedPhaseRef = "bottom" /\ p = "top")
                  \/ (gateLog.countedAt # 0 /\ now' - gateLog.countedAt < 800))
              => /\ confirmedPhaseRef' = p
                 /\ repCount' = repCount
                 /\ lastRepTimeRef' = lastRepTimeRef
                 /\ pendingFeedback' = pendingFeedback
       /\ (TrackedFrameStep /\ confirmedPhaseRef = "top") => repCount' = repCount]_vars

\* A bottom->top transition was rejected, top has stayed stable since, more
\* than 800 ms have passed since the counted repetition, and the count is 1.
C10_Witness ==
    /\ repCount = 1
    /\ confirmedPhaseRef = "top"
    /\ gateLog.from = "bottom" /\ gateLog.to = "top" /\ ~gateLog.counted
    /\ gateLog.countedAt # 0
    /\ now - gateLog.countedAt > 800
    /\ VotesFor(phaseHistoryRef, "top") >= 3

\* C11: every increment of the repetition count is by 1, on a frame that
\* takes confirmedPhase from bottom to top, and from the second increment of
\* a session on the latest change of confirmedPhase before it was top->bottom
\* (so confirmedPhase was bottom between the two increments); a tracked frame
\* with confirmedPhase top and top still stable does not increment the count.
C11_OncePerCycle ==
    [][/\ repCount' > repCount
           => /\ repCount' = repCount + 1
              /\ confirmedPhaseRef = "bottom" /\ confirmedPhaseRef' = "top"
              /\ repCount > 0 => (gateLog.from = "top" /\ gateLog.to = "bottom")
       /\ (/\ TrackedFrameStep
           /\ confirmedPhaseRef = "top"
           /\ StableIs(phaseHistoryRef', "top"))
           => repCount' = repCount]_vars

\* A second repetition has just been counted in the session.
C11_Witness ==
    /\ repCount = 2
    /\ gateLog.from = "bottom" /\ gateLog.to = "top" /\ gateLog.counted
    /\ gateLog.countedAt = now

\* The step of a session (positioning or tracking) to no session: only
\* endSession takes it.
SessionEnds == (isPositioning \/ isAIActive) /\ ~isPositioning' /\ ~isAIActive'

\* C12: right after endSession the repetition count is 0, confirmedPhase is
\* standing, the motion history and the vote buffer are empty and the
\* last-rep timestamp is 0.
C12_ResetInvariant ==
    [][SessionEnds
       => /\ repCount' = 0
          /\ confirmedPhaseRef' = "standing"
          /\ hipHistoryRef' = <<>>
          /\ phaseHistoryRef' = <<>>
          /\ lastRepTimeRef' = 0]_vars

\* No session is running, and a repetition was counted in one that has
\* ended: the feedback request it started is still pending.
C12_Witness ==
    /\ ~isPositioning /\ ~isAIActive
    /\ pendingFeedback # <<>>
    /\ repCount = 0 /\ lastRepTimeRef = 0

\* C13: whenever tracking becomes active the motion history and the vote
\* buffer are empty, confirmedPhase is standing and the repetition count and
\* the last-rep timestamp are 0; and while no tracking is active (between
\* sessions, while positioning and during the countdown) both buffers are
\* empty, so no sample of an earlier session is in a buffer of a new one.
C13_NoLeakAcrossSessions ==
    /\ [][(~isAIActive /\ isAIActive')
           => /\ hipHistoryRef' = <<>>
              /\ phaseHistoryRef' = <<>>
              /\ confirmedPhaseRef' = "standing"
              /\ repCount' = 0
              /\ lastRepTimeRef' = 0]_vars
    /\ [](~isAIActive => (hipHistoryRef = <<>> /\ phaseHistoryRef = <<>>))

\* Tracking has just become active in a session that follows one in which a
\* repetition was counted (its feedback request is still pending).
C13_Witness ==
    /\ isAIActive
    /\ hipHistoryRef = <<>>
    /\ repCount = 0
    /\ pendingFeedback # <<>>

\* A started feedback request settles (resolves or fails).
FeedbackSettles == Len(pendingFeedback') < Len(pendingFeedback)

\* C14: a feedback request that settles while no session is tracked, or for
\* an exercise kind other than the selected one, leaves the displayed
\* feedback as it is (null after endSession).
C14_StaleFeedbackDiscarded ==
    [][(/\ FeedbackSettles
        /\ \/ ~isAIActive
           \/ \A i \in 1..Len(pendingFeedback) :
                  pendingFeedback[i].exercise # selectedAIExercise)
       => lastFeedback' = lastFeedback]_vars

\* C15: the settling of a feedback request leaves the repetition count,
\* confirmedPhase, the last-rep timestamp and both buffers unchanged; and a
\* tracked frame processed while requests are pending counts a bottom->top
\* transition more than 800 ms after the last one as it does with none
\* pending.
C15_FeedbackIsolated ==
    [][/\ FeedbackSettles
           => UNCHANGED <<repCount, confirmedPhaseRef, lastRepTimeRef,
                          hipHistoryRef, phaseHistoryRef>>
       /\ (TrackedFrameStep /\ pendingFeedback # <<>>)
           => ((/\ confirmedPhaseRef = "bottom"
                /\ StableIs(phaseHistoryRef', "top")
                /\ now' - lastRepTimeRef > 800)
               => (repCount' = repCount + 1 /\ confirmedPhaseRef' = "top"))]_vars

\* A second repetition was counted while the request of the first was
\* pending, and a request has settled during the session.
C15_Witness ==
    /\ isAIActive
    /\ repCount = 2
    /\ Len(pendingFeedback) = 1
    /\ lastFeedback # {}
    /\ confirmedPhaseRef = "top"

\* The most recent n of the first k samples of the session, oldest first.
RecentSamples(k, n) ==
    LET m == IF k < n THEN k ELSE n
    IN  [i \in 1..m |-> BufferSample(k - m + i)]

\* C16: after any number of tracked frames the motion history holds at most
\* 30 samples: the most recent ones (all of them up to 30) in arrival order.
C16_MotionHistoryCapacity ==
    /\ Len(hipHistoryRef) <= 30
    /\ hipHistoryRef = RecentSamples(script, 30)

\* 34 frames were tracked: the history holds samples 5 to 34.
C16_Witness ==
    /\ script = 34
    /\ Len(hipHistoryRef) = 30
    /\ hipHistoryRef[1] = BufferSample(5)
    /\ hipHistoryRef[30] = BufferSample(34)

\* C17: every tracked frame appends exactly one raw phase to the vote
\* buffer, which then holds at most 6 entries, the oldest evicted.
C17_VoteBufferCapacity ==
    [][TrackedFrameStep
       => /\ OneAppended(phaseHistoryRef, phaseHistoryRef', 6)
          /\ Len(phaseHistoryRef') <= 6]_vars

\* C18: a tracked frame that brings the motion history to fewer than 5
\* samples gets the raw phase standing from detectExercisePhase, without an
\* exception, whatever the exercise kind and the landmark frame.
C18_StartupRawPhase ==
    [][(/\ TrackedFrameStep
        /\ hipHistoryRef' # hipHistoryRef
        /\ Len(hipHistoryRef') < 5)
       => /\ ~threw'
          /\ phaseHistoryRef' = Append(phaseHistoryRef, "standing")]_vars

\* Four frames of a pull-up session with the hips moving: four votes for
\* standing.
C18_Witness ==
    /\ selectedAIExercise = "PULL_UP"
    /\ Len(hipHistoryRef) = 4
    /\ hipHistoryRef[1] # hipHistoryRef[4]
    /\ phaseHistoryRef = <<"standing", "standing", "standing", "standing">>

\* C19: a tracked frame after whose push the vote buffer holds fewer than 4
\* entries leaves confirmedPhase, the repetition count, the last-rep
\* timestamp and the feedback requests unchanged, whatever the entries.
C19_VoteStartupGuard ==
    [][(TrackedFrameStep /\ Len(phaseHistoryRef') < 4)
       => /\ confirmedPhaseRef' = confirmedPhaseRef
          /\ repCount' = repCount
          /\ lastRepTimeRef' = lastRepTimeRef
          /\ pendingFeedback' = pendingFeedback]_vars

\* Three votes, all for bottom, and confirmedPhase is still standing.
C19_Witness ==
    /\ isAIActive
    /\ phaseHistoryRef = <<"bottom", "bottom", "bottom">>
    /\ confirmedPhaseRef = "standing"
    /\ repCount = 0

\* The six joint angles of a JointAngles record.
JointAngleFields(a) ==
    {a.leftKnee, a.rightKnee, a.leftHip, a.rightHip, a.leftElbow, a.rightElbow}

\* C20: calculateAngle of three present landmarks is in 0..180, and so are
\* the six joint angles getJointAngles computed for the last frame.
C20_AngleRange ==
    /\ \A a \in currentAngles : \A v \in JointAngleFields(a) : v \in 0..180
    /\ script > 0 =>
          LET frame == AngleFrameOf(script) IN
          /\ calculateAngle(frame[24], frame[26], frame[28]) \in 0..180
          /\ calculateAngle(frame[12], frame[24], frame[26]) \in 0..180
          /\ currentAngles = {getJointAngles(frame)}

\* A frame with the right leg straight and one with a directed angle
\* difference above 180 degrees (hip to the lower left of the knee, ankle
\* straight above it), folded back to 135.
C20_Witness ==
    /\ script > 0
    /\ \E a \in currentAngles : a.rightKnee = 135 /\ a.rightHip \in 1..179
    /\ LET frame == AngleFrameOf(script) IN
           /\ frame[24].x < frame[26].x /\ frame[24].y > frame[26].y
           /\ frame[28].x = frame[26].x /\ frame[28].y < frame[26].y

\* The landmark triples of the six joint angles, by field of JointAngles.
AngleTriples ==
    [leftKnee |-> <<23, 25, 27>>, rightKnee |-> <<24, 26, 28>>,
     leftHip |-> <<11, 23, 25>>, rightHip |-> <<12, 24, 26>>,
     leftElbow |-> <<11, 13, 15>>, rightElbow |-> <<12, 14, 16>>]

\* One of the three landmarks of a triple is absent from a frame.
TripleIncomplete(frame, t) == \E j \in 1..3 : ~frame[t[j]].present

\* C21: calculateAngle is 0 when one of its three landmarks is absent,
\* whatever the other two are; in a frame getJointAngles completes, every
\* joint angle with an absent landmark is 0.
C21_DegenerateAngle ==
    script > 0 =>
        LET frame == MissingFrameOf(script) IN
        \A f \in DOMAIN AngleTriples :
            TripleIncomplete(frame, AngleTriples[f]) =>
                /\ calculateAngle(frame[AngleTriples[f][1]],
                                  frame[AngleTriples[f][2]],
                                  frame[AngleTriples[f][3]]) = 0
                /\ ~threw => \A a \in currentAngles : a[f] = 0

\* The frame fed last lacks the right knee only: the right knee and hip
\* angles are 0, the left ones are not.
C21_Witness ==
    /\ script > 0
    /\ AbsentFrom(script) = {26}
    /\ ~threw
    /\ \E a \in currentAngles :
           /\ a.rightKnee = 0 /\ a.rightHip = 0
           /\ a.leftKnee # 0 /\ a.leftHip # 0

\* C22: getJointAngles returns a JointAngles record, without an exception,
\* for every landmark frame, whichever of the landmarks it uses are absent.
C22_ExtractorNeverThrows ==
    script > 0 =>
        /\ ~threw
        /\ currentAngles = {getJointAngles(MissingFrameOf(script))}

\* The landmark frame of a step of ClassifierFrame.
FedFrame == ClassifierFrameOf(script')

\* A reference landmark of the selected exercise is absent from a frame: a
\* hip, or a shoulder for the push kinds, or the nose for the pull-up.
ReferenceAbsent(frame) ==
    \/ ~frame[23].present \/ ~frame[24].present
    \/ selectedAIExercise \in PushFamily
       /\ (~frame[11].present \/ ~frame[12].present)
    \/ selectedAIExercise = "PULL_UP" /\ ~frame[0].present

\* C23: a tracked frame with an absent reference landmark is processed
\* without an exception leaving the frame callback, and it neither
\* increments the repetition count nor starts a feedback request.
C23_MissingLandmarksTracked ==
    [][(TrackedFrameStep /\ ReferenceAbsent(FedFrame))
       => /\ ~threw'
          /\ repCount' = repCount
          /\ pendingFeedback' = pendingFeedback]_vars


\* The raw phase a tracked frame pushed: the newest vote after the step.
PushedVote == phaseHistoryRef'[Len(phaseHistoryRef')]

\* A tracked frame that ran the classifier on 5 samples or more and pushed
\* its raw phase.
ClassifiedStep ==
    /\ TrackedFrameStep
    /\ ~threw'
    /\ Len(hipHistoryRef') >= 5

\* Five times the average velocity over the last 5 samples of the motion
\* history the classifier received: newest minus oldest, in thousandths.
WindowDifference ==
    hipHistoryRef'[Len(hipHistoryRef')] - hipHistoryRef'[Len(hipHistoryRef') - 4]

\* The extremum condition of the selected exercise on a frame: the absolute
\* average velocity is below 0.001 and the reference coordinate is past its
\* threshold.
ExtremumMet(frame) ==
    /\ Abs(WindowDifference) < 5
    /\ \/ selectedAIExercise \in {"SQUAT", "DEADLIFT", "KNEE_ELEVATION"}
          /\ (frame[23].y + frame[24].y) \div 2 > 600
       \/ selectedAIExercise \in {"PUSH_UP", "BENCH_PRESS"}
          /\ (frame[11].y + frame[12].y) \div 2 > 500
       \/ selectedAIExercise = "PULL_UP" /\ frame[0].y < 300

\* C24: with 5 samples or more and the extremum condition not met, the raw
\* phase of the squat and push kinds is descending for every positive average
\* velocity and ascending for every negative one.
C24_VelocitySign ==
    [][(/\ ClassifiedStep
        /\ selectedAIExercise \in
              {"SQUAT", "DEADLIFT", "KNEE_ELEVATION", "PUSH_UP", "BENCH_PRESS"}
        /\ ~ExtremumMet(FedFrame))
       => /\ WindowDifference > 0 => PushedVote = "descending"
          /\ WindowDifference < 0 => PushedVote = "ascending"]_vars

\* C25: with 5 samples or more the raw phase is the extremum phase (bottom
\* for the squat and push kinds, top for the pull-up) exactly when the
\* extremum condition is met.
C25_ExtremumRule ==
    [][ClassifiedStep
       => /\ PushedVote \in {"bottom", "top"} <=> ExtremumMet(FedFrame)
          /\ PushedVote = "top" => selectedAIExercise = "PULL_UP"
          /\ PushedVote = "bottom" => selectedAIExercise # "PULL_UP"]_vars

\* A pull-up frame was classified as top on a full window.
C25_Witness ==
    /\ selectedAIExercise = "PULL_UP"
    /\ script > 0
    /\ ClassifierFrameOf(script)[0].y < 300
    /\ ~threw
    /\ Len(hipHistoryRef) >= 5
    /\ Len(phaseHistoryRef) >= 5
    /\ phaseHistoryRef[Len(phaseHistoryRef)] = "top"

\* The reference coordinate of the selected exercise on a frame.
ReferenceCoordinate(frame) ==
    CASE selectedAIExercise \in {"SQUAT", "DEADLIFT", "KNEE_ELEVATION"} ->
           (frame[23].y + frame[24].y) \div 2
      [] selectedAIExercise \in {"PUSH_UP", "BENCH_PRESS"} ->
           (frame[11].y + frame[12].y) \div 2
      [] selectedAIExercise = "PULL_UP" -> frame[0].y
      [] selectedAIExercise = "ROWING" -> (frame[13].x + frame[14].x) \div 2

\* C26: the sample a tracked frame appends to the motion history is the
\* reference coordinate of the selected exercise.
C26_ReferenceCoordinate ==
    [][(/\ TrackedFrameStep
        /\ hipHistoryRef' # hipHistoryRef
        /\ ~ReferenceAbsent(FedFrame))
       => hipHistoryRef'[Len(hipHistoryRef')] = ReferenceCoordinate(FedFrame)]_vars

\* C27: the raw phase a tracked frame pushes is the classifier's value on
\* the frame, the last 5 samples of the motion history and the exercise
\* kind alone.
C27_Memoryless ==
    [][(TrackedFrameStep /\ ~threw')
       => PushedVote = detectExercisePhase(FedFrame,
                                           SliceLast(hipHistoryRef', 5),
                                           selectedAIExercise)]_vars

\* A frame was classified on a motion history of more than 5 samples while
\* bottom was the confirmed phase.
C27_Witness ==
    /\ isAIActive
    /\ ~threw
    /\ Len(hipHistoryRef) > 5
    /\ hipHistoryRef[1] # hipHistoryRef[Len(hipHistoryRef) - 4]
    /\ confirmedPhaseRef = "bottom"
    /\ phaseHistoryRef[Len(phaseHistoryRef)] = "bottom"


\* round(100 * k / 8) for k = 1..8, halves rounded up.
ClaimedScore == <<13, 25, 38, 50, 63, 75, 88, 100>>

\* The key landmarks of a frame that are present with visibility above 0.6.
ConfidentlyVisible(frame) ==
    {i \in {11, 12, 23, 24, 25, 26, 27, 28} :
        /\ frame[i].present
        /\ frame[i].visibility # NoVisibility
        /\ frame[i].visibility > 60}

\* C28: after every landmark frame of the positioning phase the position
\* score is round(100 * k / 8), k the number of key landmarks present with
\* visibility above 0.6; it is 100 exactly when all 8 are.
C28_PositionScore ==
    [][(isPositioning /\ script' # script)
       => LET k == Cardinality(ConfidentlyVisible(ScoreFrameOf(script')))
          IN  /\ positionScore' = IF k = 0 THEN 0 ELSE ClaimedScore[k]
              /\ positionScore' \in 0..100
              /\ positionScore' = 100 <=> k = 8]_vars


\* C29: tracking starts only from the last tick of a countdown; a countdown
\* starts only when the auto-start timer fires during positioning with a
\* position score of 100 and runs 3, 2, 1 while positioning; no sample or
\* vote is pushed while tracking is not active; outside positioning no
\* countdown runs and no auto-start timer is armed.
C29_CalibrationGate ==
    /\ [](~isAIActive => hipHistoryRef = <<>> /\ phaseHistoryRef = <<>>)
    /\ [](~isPositioning =>
             countdown = NullCountdown /\ autoStartTimerRef = NullTimer)
    /\ [][/\ (~isAIActive /\ isAIActive')
             => isPositioning /\ ~isPositioning' /\ countdown = 1
          /\ countdown' # countdown
             => \/ /\ countdown = NullCountdown /\ countdown' = 3
                   /\ isPositioning /\ isPositioning'
                   /\ positionScore = 100
                   /\ autoStartTimerRef = ArmedTimer
                \/ /\ countdown \in {2, 3} /\ countdown' = countdown - 1
                   /\ isPositioning /\ isPositioning'
                \/ /\ countdown = 1 /\ countdown' = NullCountdown
                   /\ isPositioning /\ isAIActive'
                \/ ResetStep /\ countdown' = NullCountdown]_vars

\* Tracking was started by a countdown during which the position score fell
\* below 100, and frames have been tracked since.
C29_Witness ==
    /\ isAIActive
    /\ positionScore < 100
    /\ hipHistoryRef # <<>>
    /\ phaseHistoryRef # <<>>


\* C30: the selected exercise kind changes only while neither positioning nor
\* tracking is active, in the step that starts positioning; every feedback
\* request issued carries the kind selected for the session in progress.
C30_KindFixedPerSession ==
    [][/\ selectedAIExercise' # selectedAIExercise
          => ~isPositioning /\ ~isAIActive /\ isPositioning'
       /\ (isPositioning \/ isAIActive)
          => selectedAIExercise' = selectedAIExercise
       /\ Len(pendingFeedback') > Len(pendingFeedback)
          => /\ isAIActive
             /\ pendingFeedback'[Len(pendingFeedback')].exercise
                    = selectedAIExercise]_vars

\* Requests of two sessions of different kinds are pending, each with the
\* kind of its own session.
C30_Witness ==
    /\ isAIActive
    /\ Len(pendingFeedback) >= 2
    /\ pendingFeedback[1].exercise # selectedAIExercise
    /\ pendingFeedback[Len(pendingFeedback)].exercise = selectedAIExercise


\* The angle of the hip-midpoint to shoulder-midpoint vector of a frame,
\* less 90 degrees.
MidpointBackAngle(frame) ==
    Round(Abs(Atan2MilliDeg((frame[11].y + frame[12].y) - (frame[23].y + frame[24].y),
                            (frame[11].x + frame[12].x) - (frame[23].x + frame[24].x)))
          - 90000)

\* Both shoulders are directly above the hips.
UprightTorso(frame) ==
    /\ frame[11].x = frame[23].x /\ frame[11].y < frame[23].y
    /\ frame[12].x = frame[24].x /\ frame[12].y < frame[24].y

\* C31: backAngle is the angle of the hip-midpoint to shoulder-midpoint
\* vector less 90 degrees: 0 for an upright torso, and the same for a lean of
\* the same magnitude to either side.
C31_TrunkBaseline ==
    script > 0 =>
        \A a \in currentAngles :
            /\ a.backAngle = MidpointBackAngle(TrunkFrameOf(script))
            /\ UprightTorso(TrunkFrameOf(script)) => a.backAngle = 0
            /\ a.backAngle = getJointAngles(TrunkFrameOf(TrunkMirrorOf(script))).backAngle

\* C38: the backAngle of a frame in which landmarks 11 and 23 are present
\* lies between -90 and 90.
C38_TrunkRange ==
    script > 0 =>
        \A a \in currentAngles : a.backAngle >= -90 /\ a.backAngle <= 90

\* The left shoulder level with the left hip, on the side that reads 90.
C38_Witness ==
    /\ script > 0
    /\ TrunkFrameOf(script)[11].present /\ TrunkFrameOf(script)[23].present
    /\ TrunkDy(script) = 0
    /\ \E a \in currentAngles : a.backAngle = 90


\* C32: the repetition count changes only in a tracked frame that confirms
\* top after bottom, by exactly 1, and in endSession, to 0; a feedback
\* response or a timer leaves it as it is.
C32_CountMonotone ==
    [][/\ repCount' # repCount
          => \/ /\ TrackedFrameStep
                /\ repCount' = repCount + 1
                /\ confirmedPhaseRef = "bottom" /\ confirmedPhaseRef' = "top"
             \/ SessionEnds /\ repCount' = 0
       /\ (FeedbackSettles \/ countdown' # countdown) /\ ~SessionEnds
          => repCount' = repCount]_vars

\* A feedback response arrived in a session that has counted, and the count
\* stands.
C32_Witness ==
    /\ isAIActive
    /\ repCount >= 1
    /\ lastFeedback # {}
    /\ pendingFeedback = <<>>

\* A feedback request is issued.
RequestIssued == Len(pendingFeedback') > Len(pendingFeedback)

\* C33: a feedback request is issued in exactly the frames that increment
\* the repetition count, one per frame, and in no other step; the count
\* returns to 0 only in endSession, which issues none.
C33_EventsMatchCounts ==
    [][/\ RequestIssued <=> repCount' = repCount + 1
       /\ RequestIssued
          => /\ TrackedFrameStep
             /\ Len(pendingFeedback') = Len(pendingFeedback) + 1
       /\ repCount' < repCount => SessionEnds /\ repCount' = 0]_vars

\* Two repetitions were counted in a session and two requests are pending.
C33_Witness ==
    /\ isAIActive
    /\ repCount = 2
    /\ Len(pendingFeedback) = 2


\* The raw phases the claim allows for an exercise kind.
AllowedRaw(exercise) ==
    IF exercise \in {"SQUAT", "DEADLIFT", "KNEE_ELEVATION", "PUSH_UP", "BENCH_PRESS"}
    THEN {"standing", "bottom", "descending", "ascending"}
    ELSE IF exercise = "PULL_UP"
    THEN {"standing", "top", "descending", "ascending"}
    ELSE Phase

\* C34: the raw phases of a squat, deadlift, knee-raise, push-up or bench
\* press session are standing, bottom, descending or ascending, never top;
\* those of a pull-up session standing, top, descending or ascending, never
\* bottom.
C34_OutputRange ==
    \A i \in 1..Len(phaseHistoryRef) :
        phaseHistoryRef[i] \in AllowedRaw(selectedAIExercise)

\* A pull-up session whose raw phases include ascending and top.
C34_Witness ==
    /\ selectedAIExercise = "PULL_UP"
    /\ \E i, j \in 1..Len(phaseHistoryRef) :
           phaseHistoryRef[i] = "ascending" /\ phaseHistoryRef[j] = "top"

\* C35: in an overhead press, rowing or custom session every raw phase is
\* standing, confirmedPhase stays standing and the repetition count stays 0.
C35_UnsupportedKinds ==
    selectedAIExercise \in {"OVERHEAD_PRESS", "ROWING", "CUSTOM"}
    => /\ \A i \in 1..Len(phaseHistoryRef) : phaseHistoryRef[i] = "standing"
       /\ confirmedPhaseRef = "standing"
       /\ repCount = 0

\* A custom session tracked for 8 frames or more, low and upright, with a
\* full vote buffer.
C35_Witness ==
    /\ selectedAIExercise = "CUSTOM"
    /\ isAIActive
    /\ Len(hipHistoryRef) >= 8
    /\ Len(phaseHistoryRef) = 6
    /\ \E i, j \in 1..Len(hipHistoryRef) : hipHistoryRef[i] < hipHistoryRef[j]


\* A sequence in reverse order.
Reversed(s) == [i \in 1..Len(s) |-> s[Len(s) + 1 - i]]

\* The key phases whose tally over the last 5 votes reaches the threshold.
StableSet(buffer) ==
    {p \in {"bottom", "top"} : HasStableTally(LastFive(buffer), p)}

\* C36: in no vote buffer do bottom and top both reach 3 of the last 5
\* votes, so at most one key phase is stable and the stable phase is the same
\* in whatever order the tallies are listed.
C36_UniqueStablePhase ==
    /\ ~(VotesFor(phaseHistoryRef, "bottom") >= 3
         /\ VotesFor(phaseHistoryRef, "top") >= 3)
    /\ Cardinality(StableSet(phaseHistoryRef)) <= 1
    /\ stablePhaseOf(LastFive(phaseHistoryRef))
          = stablePhaseOf(Reversed(LastFive(phaseHistoryRef)))
    /\ stablePhaseOf(LastFive(phaseHistoryRef)) \in
          (IF StableSet(phaseHistoryRef) = {} THEN {NoStablePhase}
           ELSE StableSet(phaseHistoryRef))

\* Both key phases are among the last 5 votes, top listed first, and bottom
\* is the stable one.
C36_Witness ==
    /\ Len(phaseHistoryRef) = 6
    /\ phaseHistoryRef[2] = "top"
    /\ VotesFor(phaseHistoryRef, "top") = 2
    /\ VotesFor(phaseHistoryRef, "bottom") = 3
    /\ confirmedPhaseRef = "bottom"

\* The last three votes of a buffer are all p.
LastThreeAre(buffer, p) ==
    /\ Len(buffer) >= 3
    /\ \A i \in (Len(buffer) - 2)..Len(buffer) : buffer[i] = p

\* C37: a buffer of exactly 4 votes is tallied over those 4, and a key phase
\* with 3 of them is confirmed; no phase is confirmed while the buffer of a
\* fresh session holds fewer than 4 votes; after 3 votes or more, three raw
\* bottom (or top) frames in a row leave that phase confirmed.
C37_FourVoteWindow ==
    \A p \in {"bottom", "top"} :
        /\ Len(phaseHistoryRef) = 4 /\ PhaseCount(phaseHistoryRef, p) >= 3
           => confirmedPhaseRef = p
        /\ Len(phaseHistoryRef) < 4 => confirmedPhaseRef = "standing"
        /\ Len(phaseHistoryRef) = 6 /\ LastThreeAre(phaseHistoryRef, p)
           => confirmedPhaseRef = p

\* Three raw bottom frames and one other in a buffer of exactly 4, bottom
\* confirmed.
C37_Witness ==
    /\ Len(phaseHistoryRef) = 4
    /\ LastThreeAre(phaseHistoryRef, "bottom")
    /\ phaseHistoryRef[1] = "ascending"
    /\ confirmedPhaseRef = "bottom"

====
